---- MODULE Spec2Model ----
(***************************************************************************)
(* The Painter component of src/src/utils/Painter.tsx (lines 1-201) as a   *)
(* state machine: the React state (drawing, position, data), the update    *)
(* queue React holds between a continuous event and the next render, the   *)
(* canvas (backing size, transform, strokes on it), the debug console, and *)
(* one action per event handler / effect.                                  *)
(***************************************************************************)
EXTENDS Integers, Sequences, FiniteSets, TLC

VARIABLES
  recordPoints,  \* props.recordPoints (Painter.tsx:7), fixed at mount
  ratio,         \* window.devicePixelRatio (Painter.tsx:41)
  mounted,       \* the component has committed its first render
  canvasRef,     \* canvasRef.current is non-null (Painter.tsx:25)
  contextOk,     \* canvas.getContext("2d") returns a context
  drawing,       \* useState(false)  (Painter.tsx:26), value of the last render
  position,      \* useState(null)   (Painter.tsx:27), value of the last render
  data,          \* useState([])     (Painter.tsx:28), value of the last render
  pending,       \* state updates queued by onMove, not yet rendered
  rect,          \* canvas.getBoundingClientRect(): <<width, height>>
  backing,       \* <<canvas.width, canvas.height>>
  scale,         \* scale factor of the context's transform
  canvas,        \* segments stroked on the backing store since it was last cleared
  issued,        \* stroke commands issued by the last handled event, in order
  drawn,         \* every segment onMove has stroked, in order
  log,           \* console.log emissions, in order
  last           \* the kind of the last handled event

vars == <<recordPoints, ratio, mounted, canvasRef, contextOk, drawing, position,
          data, pending, rect, backing, scale, canvas, issued, drawn, log, last>>

\* ---------------------------------------------------------------- bounds
MaxDrawn == 3   \* segments stroked by onMove in one behaviour
MaxPath  == 3   \* points in data
MaxLog   == 3   \* emissions on the console

\* ------------------------------------------------------- program constants
threshold == 4      \* <Painter threshold={4} />
DefaultWidth == 300 \* backing width of a canvas without a width attribute
DefaultHeight == 150
OffsetLeft == 2     \* canvasRef.current.offsetLeft
OffsetTop == 3      \* canvasRef.current.offsetTop

NULL == <<>>        \* null: a Coordinates value is <<x, y>>

\* --------------------------------------------------------------- inputs
\* Client positions of the pointer: a press lands on canvas point (0,0), a
\* mouse move on (0,0), (5,5) or (5,1); a touch is at client (2,3) on a page
\* scrolled by (0,0) or, while moving, by (1,1), where it lands on (1,1).
ClientPoints(t) ==
  IF t = "mousedown" THEN {<<2, 3>>}
  ELSE {<<2, 3>>, <<7, 8>>, <<7, 4>>}
TouchPoints == {<<2, 3>>}
Scrolls(t) == IF t = "touchstart" THEN {<<0, 0>>} ELSE {<<0, 0>>, <<1, 1>>}
Sizes == {<<3, 2>>, <<6, 4>>}
Ratios == {1, 2}

MouseEvents(t) ==
  {[type |-> t, clientX |-> c[1], clientY |-> c[2], touches |-> <<>>] :
     c \in ClientPoints(t)}

TouchEvents(t) ==
  {[type |-> t, clientX |-> 0, clientY |-> 0,
    touches |-> <<[clientX |-> c[1], clientY |-> c[2],
                   pageX |-> c[1] + s[1], pageY |-> c[2] + s[2]]>>] :
     c \in TouchPoints, s \in Scrolls(t)}

DownEvents == MouseEvents("mousedown") \cup TouchEvents("touchstart")
MoveEvents == MouseEvents("mousemove") \cup TouchEvents("touchmove")

\* ------------------------------------------------------------ pure parts
\* Mutant of getCoordinates: touch events are read like mouse events, from
\* the client position of the first contact.
getCoordinates_touchClient(event) ==
  IF ~canvasRef THEN NULL
  ELSE LET x == IF event.type = "touchstart" \/ event.type = "touchmove"
                THEN event.touches[1].clientX ELSE event.clientX
           y == IF event.type = "touchstart" \/ event.type = "touchmove"
                THEN event.touches[1].clientY ELSE event.clientY
       IN <<x - OffsetLeft, y - OffsetTop>>

\* Mutant of getCoordinates: the null check of the element is missing.
getCoordinates_unchecked(event) ==
  LET x == IF event.type = "touchstart" \/ event.type = "touchmove"
           THEN event.touches[1].pageX ELSE event.clientX
      y == IF event.type = "touchstart" \/ event.type = "touchmove"
           THEN event.touches[1].pageY ELSE event.clientY
  IN <<x - OffsetLeft, y - OffsetTop>>

\* getCoordinates (Painter.tsx:98-117)
getCoordinates(event) ==
  IF ~canvasRef THEN NULL
  ELSE LET x == IF event.type = "touchstart" \/ event.type = "touchmove"
                THEN event.touches[1].pageX ELSE event.clientX
           y == IF event.type = "touchstart" \/ event.type = "touchmove"
                THEN event.touches[1].pageY ELSE event.clientY
       IN <<x - OffsetLeft, y - OffsetTop>>

\* (p2.x - p1.x) ** 2 + (p2.y - p1.y) ** 2, the radicand of getDistance
\* (Painter.tsx:125-127)
getDistanceSquared(p1, p2) ==
  (p2[1] - p1[1]) * (p2[1] - p1[1]) + (p2[2] - p1[2]) * (p2[2] - p1[2])

\* Mutant of ExceedsThreshold: the y term of the distance is dropped.
ExceedsThreshold_xOnly(p1, p2) ==
  (p2[1] - p1[1]) * (p2[1] - p1[1]) > threshold * threshold

\* Mutant of ExceedsThreshold: >= in place of >.
ExceedsThreshold_orEqual(p1, p2) ==
  getDistanceSquared(p1, p2) >= threshold * threshold

\* getDistance(position, newPosition) > props.threshold (Painter.tsx:160):
\* Math.sqrt is monotone and exact on perfect squares, so for a threshold >= 0
\* sqrt(s) > t iff s > t * t.
ExceedsThreshold(p1, p2) == getDistanceSquared(p1, p2) > threshold * threshold

\* drawLine (Painter.tsx:72-90): the stroke commands it issues
drawLine(p1, p2) ==
  IF ~canvasRef THEN <<>>
  ELSE IF contextOk THEN <<<<p1, p2>>>> ELSE <<>>

SegSet(s) == {s[i] : i \in 1..Len(s)}

\* redraw (Painter.tsx:60-64) over the data of the render it belongs to
RECURSIVE redrawFrom(_, _)
redrawFrom(d, i) ==
  IF i > Len(d) - 1 THEN <<>>
  ELSE drawLine(d[i], d[i + 1]) \o redrawFrom(d, i + 1)

\* Mutant of redraw: the loop starts at the second point.
redraw_fromSecond(d) == redrawFrom(d, 2)

redraw(d) == redrawFrom(d, 1)

\* --------------------------------------------------------- React rendering
\* The state the next render commits: the queued updates, last one winning
\* (setPosition / setData are called with plain values, Painter.tsx:163-165).
NextPosition == IF pending = <<>> THEN position ELSE pending[1].position
NextData == IF pending = <<>> THEN data ELSE pending[1].data

\* `data != []` (Painter.tsx:184) compares an array with a fresh array literal
\* by reference: it is true of every value of data.
NotFreshArray(d) == TRUE

\* Mutant of consoleEffect: the emptiness test works as a value comparison.
consoleEffect_nonEmpty(isDrawing, d) ==
  IF recordPoints /\ ~isDrawing /\ d # <<>> THEN Append(log, d) ELSE log

\* The body of the [drawing] effect (Painter.tsx:183-187) for a render with
\* state (isDrawing, d): the console after it.
consoleEffect(isDrawing, d) ==
  IF recordPoints /\ ~isDrawing /\ NotFreshArray(d) THEN Append(log, d) ELSE log

\* A render that commits (newDrawing, newPosition, newData) and runs the
\* [drawing] effect when its dependency changed since the previous render.
Commit(newDrawing, newPosition, newData) ==
  /\ drawing' = newDrawing
  /\ position' = newPosition
  /\ data' = newData
  /\ pending' = <<>>
  /\ log' = IF newDrawing # drawing THEN consoleEffect(newDrawing, newData) ELSE log

\* Mutant of onDownUpdates: the position is set only when there is none.
onDownUpdates_keepPosition(coordinates) ==
  [drawing |-> TRUE,
   position |-> IF position = NULL THEN coordinates ELSE position]

\* Mutant of onDownUpdates: setDrawing(true) is missing.
onDownUpdates_noDrawing(coordinates) ==
  [drawing |-> drawing, position |-> coordinates]

\* setPosition(coordinates); setDrawing(true) (Painter.tsx:135-136)
onDownUpdates(coordinates) == [drawing |-> TRUE, position |-> coordinates]

\* Mutant of onUpUpdates: the stroke ends only while the element is attached.
onUpUpdates_ifAttached ==
  IF canvasRef THEN [drawing |-> FALSE, position |-> NULL]
  ELSE [drawing |-> drawing, position |-> position]

\* Mutant of onUpUpdates: setPosition(null) is missing.
onUpUpdates_keepPosition == [drawing |-> FALSE, position |-> position]

\* setDrawing(false); setPosition(null) (Painter.tsx:144-145)
onUpUpdates == [drawing |-> FALSE, position |-> NULL]

\* Mutant of appendPoint: points are kept only when recordPoints is set.
appendPoint_ifRecording(d, newPosition) ==
  IF recordPoints THEN Append(d, newPosition) ELSE d

\* Mutant of appendPoint: the new point replaces the path.
appendPoint_replace(d, newPosition) == <<newPosition>>

\* const newData = [...data]; newData.concat(newPosition) (Painter.tsx:164-165)
appendPoint(d, newPosition) == Append(d, newPosition)

\* canvas.width !== width || canvas.height !== height (Painter.tsx:40)
SizeDiffers(b, r) == b[1] # r[1] \/ b[2] # r[2]

\* Mutant of resizeCanvas: the backing store is resized before the context
\* is tested.
resizeCanvas_sizeFirst(r, d) ==
  IF SizeDiffers(backing, r)
  THEN /\ backing' = <<r[1] * ratio, r[2] * ratio>>
       /\ scale' = IF contextOk THEN ratio ELSE 1
       /\ issued' = redraw(d)
       /\ canvas' = SegSet(redraw(d))
  ELSE /\ UNCHANGED <<backing, scale, canvas>>
       /\ issued' = <<>>

\* resizeCanvas (Painter.tsx:37-55) against bounding box r, in a render whose
\* data is d.  Assigning canvas.width clears the backing store and resets the
\* transform before context.scale and redraw run.
resizeCanvas(r, d) ==
  IF SizeDiffers(backing, r) /\ contextOk
  THEN /\ backing' = <<r[1] * ratio, r[2] * ratio>>
       /\ scale' = ratio
       /\ issued' = redraw(d)
       /\ canvas' = SegSet(redraw(d))
  ELSE /\ UNCHANGED <<backing, scale, canvas>>
       /\ issued' = <<>>

\* ----------------------------------------------------------------- actions
Init ==
  /\ recordPoints \in BOOLEAN
  /\ ratio \in Ratios
  /\ mounted = FALSE
  /\ canvasRef = FALSE
  /\ contextOk = TRUE
  /\ drawing = FALSE
  /\ position = NULL
  /\ data = <<>>
  /\ pending = <<>>
  /\ rect = <<3, 2>>
  /\ backing = <<DefaultWidth, DefaultHeight>>
  /\ scale = 1
  /\ canvas = {}
  /\ issued = <<>>
  /\ drawn = <<>>
  /\ log = <<>>
  /\ last = "init"

\* First commit: the ref is attached, then both effects run once
\* (Painter.tsx:175-177 and 183-187).
Mount ==
  /\ ~mounted
  /\ mounted' = TRUE
  /\ canvasRef' = TRUE
  /\ resizeCanvas(rect, data)
  /\ log' = consoleEffect(drawing, data)
  /\ last' = "mount"
  /\ UNCHANGED <<recordPoints, ratio, contextOk, drawing, position, data,
                 pending, rect, drawn>>

\* onDown (Painter.tsx:132-138); mousedown / touchstart are discrete events,
\* React renders before the next event is dispatched.
onDown(event) ==
  /\ mounted
  /\ Len(log) < MaxLog
  /\ LET coordinates == getCoordinates(event) IN
       /\ IF coordinates # NULL
          THEN Commit(onDownUpdates(coordinates).drawing,
                      onDownUpdates(coordinates).position, NextData)
          ELSE UNCHANGED <<drawing, position, data, pending, log>>
       /\ last' = "down"
  /\ issued' = <<>>
  /\ UNCHANGED <<recordPoints, ratio, mounted, canvasRef, contextOk, rect,
                 backing, scale, canvas, drawn>>

\* onUp (Painter.tsx:143-146); mouseup / touchend are discrete events.
onUp ==
  /\ mounted
  /\ Commit(onUpUpdates.drawing, onUpUpdates.position, NextData)
  /\ issued' = <<>>
  /\ last' = "up"
  /\ UNCHANGED <<recordPoints, ratio, mounted, canvasRef, contextOk, rect,
                 backing, scale, canvas, drawn>>

\* onMove (Painter.tsx:153-170).  drawing, position and data are the values
\* of the render that built the callback (dependencies [drawing, position]);
\* mousemove / touchmove are continuous events: the updates are queued and
\* rendered later (Render).
onMove(event) ==
  /\ mounted
  /\ LET newPosition == getCoordinates(event) IN
       /\ IF /\ drawing
             /\ position # NULL
             /\ newPosition # NULL
             /\ ExceedsThreshold(position, newPosition)
          THEN /\ Len(drawn) < MaxDrawn
               /\ Len(data) < MaxPath
               /\ issued' = drawLine(position, newPosition)
               /\ canvas' = canvas \cup SegSet(drawLine(position, newPosition))
               /\ drawn' = drawn \o drawLine(position, newPosition)
               /\ pending' = <<[position |-> newPosition,
                               data |-> appendPoint(data, newPosition)]>>
          ELSE /\ issued' = <<>>
               /\ UNCHANGED <<canvas, drawn, pending>>
       /\ last' = "move"
  /\ UNCHANGED <<recordPoints, ratio, mounted, canvasRef, contextOk, drawing,
                 position, data, rect, backing, scale, log>>

\* The render React schedules after a continuous event: it commits the queued
\* updates and rebuilds onMove (position changed).
Render ==
  /\ mounted
  /\ pending # <<>>
  /\ Commit(drawing, NextPosition, NextData)
  /\ UNCHANGED <<recordPoints, ratio, mounted, canvasRef, contextOk, rect,
                 backing, scale, canvas, issued, drawn, last>>

\* The window-size observer reports a size: the component renders and the
\* [size] effect (Painter.tsx:175-177) calls resizeCanvas(canvasRef.current!).
WindowResize(s) ==
  /\ mounted
  /\ canvasRef
  /\ rect' = s
  /\ Commit(drawing, NextPosition, NextData)
  /\ resizeCanvas(s, NextData)
  /\ last' = "resize"
  /\ UNCHANGED <<recordPoints, ratio, mounted, canvasRef, contextOk, drawn>>

\* Environment: the canvas element is detached from / attached to the ref.
Detach ==
  /\ mounted /\ canvasRef
  /\ canvasRef' = FALSE
  /\ issued' = <<>>
  /\ last' = "detach"
  /\ UNCHANGED <<recordPoints, ratio, mounted, contextOk, drawing, position,
                 data, pending, rect, backing, scale, canvas, drawn, log>>

Attach ==
  /\ mounted /\ ~canvasRef
  /\ canvasRef' = TRUE
  /\ issued' = <<>>
  /\ last' = "attach"
  /\ UNCHANGED <<recordPoints, ratio, mounted, contextOk, drawing, position,
                 data, pending, rect, backing, scale, canvas, drawn, log>>

Next ==
  \/ Mount
  \/ \E event \in DownEvents : onDown(event)
  \/ onUp
  \/ \E event \in MoveEvents : onMove(event)
  \/ Render
  \/ \E s \in Sizes : WindowResize(s)

Spec == Init /\ [][Next]_vars

NextDetached ==
  \/ Next
  \/ Detach
  \/ Attach

SpecDetached == Init /\ [][NextDetached]_vars

\* The same component on a canvas whose getContext("2d") may return null:
\* whether it does is fixed for the life of the element.
InitContext ==
  /\ recordPoints \in BOOLEAN
  /\ ratio \in Ratios
  /\ mounted = FALSE
  /\ canvasRef = FALSE
  /\ contextOk \in BOOLEAN
  /\ drawing = FALSE
  /\ position = NULL
  /\ data = <<>>
  /\ pending = <<>>
  /\ rect = <<3, 2>>
  /\ backing = <<DefaultWidth, DefaultHeight>>
  /\ scale = 1
  /\ canvas = {}
  /\ issued = <<>>
  /\ drawn = <<>>
  /\ log = <<>>
  /\ last = "init"

SpecContext == InitContext /\ [][Next]_vars

\* ------------------------------------------------------------------ claims
\* Euclidean distance of p and q strictly greater than t (t >= 0).
Far(p, q, t) ==
  (q[1] - p[1]) * (q[1] - p[1]) + (q[2] - p[2]) * (q[2] - p[2]) > t * t

\* The segments joining consecutive points of path d.
Consecutive(d) == [i \in 1..(Len(d) - 1) |-> <<d[i], d[i + 1]>>]

IsPrefix(a, b) == Len(a) <= Len(b) /\ SubSeq(b, 1, Len(a)) = a

\* C1: while a stroke is active with current position p, a move event whose
\* mapped point q is farther than the threshold from p issues exactly one
\* stroke, the segment p -> q, and updates the position to q.
C1_MoveBeyondThresholdDraws ==
  [][\A event \in MoveEvents :
       (/\ onMove(event)
        /\ drawing
        /\ position # NULL
        /\ Far(position, getCoordinates(event), threshold))
       => /\ issued' = <<<<position, getCoordinates(event)>>>>
          /\ NextPosition' = getCoordinates(event)]_vars

\* C1 witness: down at (0,0), then the move to (5,5) has drawn (0,0) -> (5,5)
\* and queued position (5,5).
C1_Witness ==
  /\ last = "move"
  /\ issued = <<<<(<<0, 0>>), (<<5, 5>>)>>>>
  /\ pending # <<>>
  /\ pending[1].position = <<5, 5>>

\* C2: while a stroke is active with current position p, a move event whose
\* mapped point q is within the threshold of p (distance = threshold
\* included) issues no stroke and leaves the position unchanged.
C2_MoveWithinThresholdIgnored ==
  [][\A event \in MoveEvents :
       (/\ onMove(event)
        /\ drawing
        /\ position # NULL
        /\ ~Far(position, getCoordinates(event), threshold))
       => /\ issued' = <<>>
          /\ position' = position
          /\ pending' = pending
          /\ canvas' = canvas]_vars

\* C2 witness: the stroke stands at (5,5) after one drawn segment, and the
\* last event, a move, drew nothing: it was to (5,5) or to (5,1), which is at
\* distance 4 = threshold.
C2_Witness ==
  /\ last = "move"
  /\ drawing
  /\ position = <<5, 5>>
  /\ pending = <<>>
  /\ issued = <<>>
  /\ Len(drawn) = 1

\* C3: a down event always leaves the session drawing with the current
\* position at the down-point, whatever the prior state.
C3_DownStartsStroke ==
  [][\A event \in DownEvents :
       onDown(event)
       => /\ drawing'
          /\ position' # NULL
          /\ position' = getCoordinates(event)
          /\ pending' = <<>>]_vars

\* C3 witness: a down event arrived while a stroke that had drawn a segment
\* was still active (recording on, nothing emitted since mount), and the
\* position is the down-point.
C3_Witness ==
  /\ last = "down"
  /\ recordPoints
  /\ Len(log) = 1
  /\ drawn # <<>>
  /\ drawing
  /\ position = <<0, 0>>

\* C4: an up event always leaves the session idle with a null position,
\* whatever the prior state and whether or not the canvas element is attached.
C4_UpEndsStroke ==
  [][onUp => (~drawing' /\ position' = NULL /\ pending' = <<>>)]_vars

\* C4 witness: an up event handled with the element detached ended a stroke
\* that had drawn a segment.
C4_Witness ==
  /\ last = "up"
  /\ ~canvasRef
  /\ recordPoints
  /\ Len(log) = 2
  /\ drawn # <<>>
  /\ ~drawing
  /\ position = NULL

\* C5: with recording enabled, once every event is rendered the recorded
\* path is exactly the sequence of move points that triggered a rendered
\* segment, in order.
C5_PathIsRenderedPoints ==
  (recordPoints /\ pending = <<>>)
    => data = [i \in 1..Len(drawn) |-> drawn[i][2]]

\* C6 as claimed: every resize event issues the N-1 strokes joining
\* consecutive points of the recorded path of N points.
C6_EveryResizeReplays ==
  last = "resize" => issued = Consecutive(data)

\* C6 as amended: a resize event whose bounding box differs from the backing
\* width/height issues exactly the N-1 strokes joining consecutive path points
\* in order (none when N <= 1); one whose bounding box equals the backing size
\* issues none.
C6_ResizeReplaysWhenSizeDiffers ==
  [][\A s \in Sizes :
       WindowResize(s)
       => issued' = IF backing # s THEN Consecutive(data') ELSE <<>>]_vars

\* C6 witness: a resize replayed a path of three points as two strokes.
C6_Witness ==
  /\ last = "resize"
  /\ Len(data) = 3
  /\ issued = <<<<data[1], data[2]>>, <<data[2], data[3]>>>>

C8_StrokeEndEmitsPath ==
  [][/\ (onUp /\ drawing)
          => /\ data' = NextData
             /\ log' = IF recordPoints THEN Append(log, NextData) ELSE log
             /\ UNCHANGED <<canvas, backing, scale, drawn>>
     /\ ~recordPoints => log' = <<>>]_vars

\* C8 witness: two strokes have ended with recording on; the second one's
\* emission is the two-point path.
C8_Witness ==
  /\ recordPoints
  /\ last = "up"
  /\ Len(log) = 3
  /\ Len(data) = 2
  /\ log[3] = data

\* C9: the recorded path only grows at its end: across every step the old
\* path is a prefix of the new one.
C9_PathAppendOnly ==
  [][IsPrefix(data, data')]_vars

\* C9 witness: a stroke recorded a point and ended, a new stroke began and
\* recorded a second point after it.
C9_Witness ==
  /\ recordPoints
  /\ Len(log) = 2
  /\ log[2] # <<>>
  /\ drawing
  /\ Len(data) = Len(log[2]) + 1
  /\ IsPrefix(log[2], data)

\* C10: every qualifying move is measured and drawn from the point the
\* previous events left (queued updates included), and its point is appended
\* to the path those events left.
C10_MoveSeesEarlierMoves ==
  [][\A event \in MoveEvents :
       (onMove(event) /\ drawing /\ NextPosition # NULL)
       => /\ (issued' # <<>>)
               = Far(NextPosition, getCoordinates(event), threshold)
          /\ issued' # <<>>
               => /\ issued'[1][1] = NextPosition
                  /\ NextData' = Append(NextData, getCoordinates(event))]_vars

\* The destination points of the segments onMove has stroked, in order.
RenderedPoints == [i \in 1..Len(drawn) |-> drawn[i][2]]

\* a is b with some elements left out.
RECURSIVE IsSubsequence(_, _)
IsSubsequence(a, b) ==
  IF a = <<>> THEN TRUE
  ELSE IF b = <<>> THEN FALSE
  ELSE IF Head(a) = Head(b) THEN IsSubsequence(Tail(a), Tail(b))
  ELSE IsSubsequence(a, Tail(b))

\* C11: every point of the recorded path (queued points included) is the
\* destination of a segment that was actually stroked, in chronological
\* order, also when the 2D context is unavailable.
C11_PathPointsWereStroked ==
  IsSubsequence(NextData, RenderedPoints)

\* C12: with the canvas element detached, a down event leaves the drawing
\* flag and the position unchanged, and a move event strokes nothing and
\* leaves flag, position and recorded path unchanged.
C12_DetachedEventsIgnored ==
  [][~canvasRef =>
       /\ \A event \in DownEvents :
            onDown(event)
            => /\ issued' = <<>>
               /\ UNCHANGED <<drawing, position, data, pending, canvas, drawn, log>>
       /\ \A event \in MoveEvents :
            onMove(event)
            => /\ issued' = <<>>
               /\ UNCHANGED <<drawing, position, data, pending, canvas, drawn, log>>]_vars

\* C12 witness: a move event was handled with the element detached while a
\* stroke that had recorded a point was active.
C12_Witness ==
  /\ last = "move"
  /\ ~canvasRef
  /\ drawing
  /\ position # NULL
  /\ data # <<>>

\* C13: a move event received while idle strokes nothing and leaves the
\* drawing flag, the (null) position and the recorded path unchanged.
C13_IdleMoveIgnored ==
  [][\A event \in MoveEvents :
       (onMove(event) /\ ~drawing)
       => /\ issued' = <<>>
          /\ position = NULL
          /\ UNCHANGED <<drawing, position, data, pending, canvas, drawn, log>>]_vars

\* C13 witness: a stroke recorded a point and ended, and the last event is a
\* move handled while idle.
C13_Witness ==
  /\ last = "move"
  /\ ~drawing
  /\ position = NULL
  /\ data # <<>>
  /\ issued = <<>>

\* C14: a resize during which the 2D context cannot be obtained leaves the
\* backing width/height, the transform and the canvas unchanged, issues no
\* stroke, and leaves the session state and the recorded path as the earlier
\* events left them.
C14_ResizeWithoutContextAbandoned ==
  [][\A s \in Sizes :
       (WindowResize(s) /\ ~contextOk)
       => /\ issued' = <<>>
          /\ UNCHANGED <<backing, scale, canvas, log>>
          /\ drawing' = drawing
          /\ position' = NextPosition
          /\ data' = NextData]_vars

\* C14 witness: no context; a resize to a box that differs from the backing
\* size, with two points recorded, left the default backing size in place.
C14_Witness ==
  /\ last = "resize"
  /\ ~contextOk
  /\ Len(data) = 2
  /\ rect = <<6, 4>>
  /\ backing = <<DefaultWidth, DefaultHeight>>
  /\ scale = 1
  /\ issued = <<>>

IsTouch(event) == event.type \in {"touchstart", "touchmove"}

\* The event's client coordinate (of the first contact for a touch event)
\* minus the canvas offset.
ClientPoint(event) ==
  IF IsTouch(event)
  THEN <<event.touches[1].clientX - OffsetLeft,
         event.touches[1].clientY - OffsetTop>>
  ELSE <<event.clientX - OffsetLeft, event.clientY - OffsetTop>>

\* The same with the page coordinate of the first contact for a touch event.
PagePoint(event) ==
  IF IsTouch(event)
  THEN <<event.touches[1].pageX - OffsetLeft,
         event.touches[1].pageY - OffsetTop>>
  ELSE <<event.clientX - OffsetLeft, event.clientY - OffsetTop>>

\* C15 as claimed: on an attached canvas the point a handler takes from an
\* event is its client coordinate minus the canvas offset, for mouse and
\* touch events alike.
C15_MapsClientCoordinates ==
  [][canvasRef =>
       /\ \A event \in DownEvents :
            onDown(event) => position' = ClientPoint(event)
       /\ \A event \in MoveEvents :
            (onMove(event) /\ issued' # <<>>)
            => (issued'[1][2] = ClientPoint(event)
                /\ NextPosition' = ClientPoint(event))]_vars

\* C15 as amended: the point is the client coordinate minus the canvas
\* offset for a mouse event and the page coordinate of the first contact
\* minus the canvas offset for a touch event.
C15_MapsClientOrPageCoordinates ==
  [][canvasRef =>
       /\ \A event \in DownEvents :
            onDown(event) => position' = PagePoint(event)
       /\ \A event \in MoveEvents :
            (onMove(event) /\ issued' # <<>>)
            => (issued'[1][2] = PagePoint(event)
                /\ NextPosition' = PagePoint(event))]_vars

\* C15 witness: a move stroked a segment to (1,1), the point only a touch at
\* client (2,3) on a page scrolled by (1,1) maps to.
C15_Witness ==
  /\ last = "move"
  /\ Len(issued) = 1
  /\ issued[1][2] = <<1, 1>>
  /\ NextPosition = <<1, 1>>

\* C16: once a resize has completed for a bounding box, a further resize
\* event with the same box does not rewrite the backing width/height, does
\* not clear the canvas and issues no stroke, whatever the pixel ratio.
C16_ResizeIdempotent ==
  [][\A s \in Sizes :
       (/\ WindowResize(s)
        /\ s = rect
        /\ backing = <<rect[1] * ratio, rect[2] * ratio>>)
       => /\ issued' = <<>>
          /\ UNCHANGED <<backing, scale, canvas>>]_vars

\* C17: the drawing flag is true exactly when the position is non-null, in
\* the rendered state and in the state the queued updates lead to.
C17_DrawingIffPosition ==
  /\ drawing <=> (position # NULL)
  /\ drawing <=> (NextPosition # NULL)

\* C17 witness: a stroke that drew a segment has ended: idle, null position.
C17_Witness ==
  /\ last = "up"
  /\ drawn # <<>>
  /\ ~drawing
  /\ position = NULL

\* C18: the segments a resize replays are exactly the segments that were
\* stroked while drawing.
C18_ReplayEqualsDrawn ==
  [][\A s \in Sizes :
       (WindowResize(s) /\ backing # s)
       => {issued'[i] : i \in 1..Len(issued')}
            = {drawn[i] : i \in 1..Len(drawn)}]_vars

\* C19: the console receives an emission only in a step in which an up event
\* ends an active stroke.
C19_EmissionOnlyAtStrokeEnd ==
  [][log' # log => (onUp /\ drawing)]_vars

====
